---- MODULE Spec2Model ----
(***************************************************************************)
(* Code-Review-Assistant: the CI review pipeline of app/scripts/ci_review  *)
(* (main and its helpers), the analyzer runners of app/services/analyzers  *)
(* and the patch pruner of app/services/diff_utils.                        *)
(*                                                                         *)
(* Strings are sequences of Unicode code points, so len(), slicing and     *)
(* concatenation are those of Python's str.                                *)
(***************************************************************************)
EXTENDS Integers, Sequences, FiniteSets, TLC

VARIABLES
    pc,           \* position of main(): the statement about to run
    exit_code,    \* -1 while running, then the process exit code
    semgrep_res,  \* parsed Semgrep document
    bandit_res,   \* parsed Bandit document
    changed,      \* list returned by get_changed_files
    idx,          \* index of the next element of `changed` the loop visits
    diffs,        \* list of rendered entries
    total,        \* running character count of diffs
    semgrep_txt,
    bandit_txt,
    prompt,
    ok,
    llm_answer,
    body,
    calls,        \* external calls issued so far, in order
    pr_patch,     \* prune_patch study: argument patch
    pr_max,       \* prune_patch study: argument max_chars
    pr_out,       \* prune_patch(pr_patch, pr_max)
    pr_out2,      \* prune_patch(pr_out, pr_max)
    pr_pc,
    sm_tool,      \* summarize study: "semgrep" or "bandit"
    sm_res,       \* summarize study: argument res
    sm_out,       \* summarize_semgrep(sm_res) or summarize_bandit(sm_res)
    sm_pc

mainVars == <<pc, exit_code, semgrep_res, bandit_res, changed, idx, diffs, total,
              semgrep_txt, bandit_txt, prompt, ok, llm_answer, body, calls>>
pruneVars == <<pr_patch, pr_max, pr_out, pr_out2, pr_pc>>
sumVars == <<sm_tool, sm_res, sm_out, sm_pc>>
vars == <<mainVars, pruneVars, sumVars>>

----------------------------------------------------------------------------
(* Program constants                                                       *)

MAX_DIFF_BUDGET == 7000
PER_FILE_BUDGET == 2000

----------------------------------------------------------------------------
(* String literals of the source, as code points                           *)

\* SEPARATOR: '\n...\n'
SEPARATOR ==
    <<10, 46, 46, 46, 10>>

\* ENTRY_OPEN: '### '
ENTRY_OPEN ==
    <<35, 35, 35, 32>>

\* ENTRY_FENCE: '\n```diff\n'
ENTRY_FENCE ==
    <<10, 96, 96, 96, 100, 105, 102, 102, 10>>

\* ENTRY_CLOSE: '\n```\n'
ENTRY_CLOSE ==
    <<10, 96, 96, 96, 10>>

\* NO_SEMGREP: 'No Semgrep findings.'
NO_SEMGREP ==
    <<78, 111, 32, 83, 101, 109, 103, 114, 101, 112, 32, 102, 105, 110, 100,
    105, 110, 103, 115, 46>>

\* NO_BANDIT: 'No Bandit findings.'
NO_BANDIT ==
    <<78, 111, 32, 66, 97, 110, 100, 105, 116, 32, 102, 105, 110, 100, 105, 110,
    103, 115, 46>>

\* LLM_UNAVAILABLE: 'LLM unavailable or not ready. Proceeding with static analysis only.\n\n> '
LLM_UNAVAILABLE ==
    <<76, 76, 77, 32, 117, 110, 97, 118, 97, 105, 108, 97, 98, 108, 101, 32,
    111, 114, 32, 110, 111, 116, 32, 114, 101, 97, 100, 121, 46, 32, 80, 114,
    111, 99, 101, 101, 100, 105, 110, 103, 32, 119, 105, 116, 104, 32, 115, 116,
    97, 116, 105, 99, 32, 97, 110, 97, 108, 121, 115, 105, 115, 32, 111, 110,
    108, 121, 46, 10, 10, 62, 32>>

\* DEFAULT_PROMPT_BASE: 'You are a senior code reviewer. Analyze the DIFF and static findings.\nOutput: Summary bullets; Findings with Severity/Evidence/Why/Fix; Optional patch diff.'
DEFAULT_PROMPT_BASE ==
    <<89, 111, 117, 32, 97, 114, 101, 32, 97, 32, 115, 101, 110, 105, 111, 114,
    32, 99, 111, 100, 101, 32, 114, 101, 118, 105, 101, 119, 101, 114, 46, 32,
    65, 110, 97, 108, 121, 122, 101, 32, 116, 104, 101, 32, 68, 73, 70, 70, 32,
    97, 110, 100, 32, 115, 116, 97, 116, 105, 99, 32, 102, 105, 110, 100, 105,
    110, 103, 115, 46, 10, 79, 117, 116, 112, 117, 116, 58, 32, 83, 117, 109,
    109, 97, 114, 121, 32, 98, 117, 108, 108, 101, 116, 115, 59, 32, 70, 105,
    110, 100, 105, 110, 103, 115, 32, 119, 105, 116, 104, 32, 83, 101, 118, 101,
    114, 105, 116, 121, 47, 69, 118, 105, 100, 101, 110, 99, 101, 47, 87, 104,
    121, 47, 70, 105, 120, 59, 32, 79, 112, 116, 105, 111, 110, 97, 108, 32,
    112, 97, 116, 99, 104, 32, 100, 105, 102, 102, 46>>

\* PROMPT_DIFFS: '\n\n# DIFFS\n'
PROMPT_DIFFS ==
    <<10, 10, 35, 32, 68, 73, 70, 70, 83, 10>>

\* PROMPT_SEMGREP: '\n\n# STATIC ANALYSIS\n## Semgrep\n'
PROMPT_SEMGREP ==
    <<10, 10, 35, 32, 83, 84, 65, 84, 73, 67, 32, 65, 78, 65, 76, 89, 83, 73,
    83, 10, 35, 35, 32, 83, 101, 109, 103, 114, 101, 112, 10>>

\* PROMPT_BANDIT: '\n\n## Bandit\n'
PROMPT_BANDIT ==
    <<10, 10, 35, 35, 32, 66, 97, 110, 100, 105, 116, 10>>

\* BODY_LLM_HEAD: '## Automated Review (LLM + Static Analysis)\n\n'
BODY_LLM_HEAD ==
    <<35, 35, 32, 65, 117, 116, 111, 109, 97, 116, 101, 100, 32, 82, 101, 118,
    105, 101, 119, 32, 40, 76, 76, 77, 32, 43, 32, 83, 116, 97, 116, 105, 99,
    32, 65, 110, 97, 108, 121, 115, 105, 115, 41, 10, 10>>

\* BODY_LLM_FOOT: '\n\n---\n<sub>Generated by Code Review Assistant (Semgrep/Bandit + Ollama)</sub>\n'
BODY_LLM_FOOT ==
    <<10, 10, 45, 45, 45, 10, 60, 115, 117, 98, 62, 71, 101, 110, 101, 114, 97,
    116, 101, 100, 32, 98, 121, 32, 67, 111, 100, 101, 32, 82, 101, 118, 105,
    101, 119, 32, 65, 115, 115, 105, 115, 116, 97, 110, 116, 32, 40, 83, 101,
    109, 103, 114, 101, 112, 47, 66, 97, 110, 100, 105, 116, 32, 43, 32, 79,
    108, 108, 97, 109, 97, 41, 60, 47, 115, 117, 98, 62, 10>>

\* BODY_STATIC_HEAD: '## Automated Review (Static Analysis Only)\n\n'
BODY_STATIC_HEAD ==
    <<35, 35, 32, 65, 117, 116, 111, 109, 97, 116, 101, 100, 32, 82, 101, 118,
    105, 101, 119, 32, 40, 83, 116, 97, 116, 105, 99, 32, 65, 110, 97, 108, 121,
    115, 105, 115, 32, 79, 110, 108, 121, 41, 10, 10>>

\* BODY_STATIC_SEMGREP: '\n\n### Semgrep\n'
BODY_STATIC_SEMGREP ==
    <<10, 10, 35, 35, 35, 32, 83, 101, 109, 103, 114, 101, 112, 10>>

\* BODY_STATIC_BANDIT: '\n\n### Bandit\n'
BODY_STATIC_BANDIT ==
    <<10, 10, 35, 35, 35, 32, 66, 97, 110, 100, 105, 116, 10>>

\* BODY_STATIC_FOOT: '\n\n---\n<sub>Generated by Code Review Assistant (Semgrep/Bandit)</sub>\n'
BODY_STATIC_FOOT ==
    <<10, 10, 45, 45, 45, 10, 60, 115, 117, 98, 62, 71, 101, 110, 101, 114, 97,
    116, 101, 100, 32, 98, 121, 32, 67, 111, 100, 101, 32, 82, 101, 118, 105,
    101, 119, 32, 65, 115, 115, 105, 115, 116, 97, 110, 116, 32, 40, 83, 101,
    109, 103, 114, 101, 112, 47, 66, 97, 110, 100, 105, 116, 41, 60, 47, 115,
    117, 98, 62, 10>>

\* LINE_DASH: '- '
LINE_DASH ==
    <<45, 32>>

\* LINE_AT: ' @ '
LINE_AT ==
    <<32, 64, 32>>

\* LINE_COLON: ':'
LINE_COLON ==
    <<58>>

\* LINE_EMDASH: ' — '
LINE_EMDASH ==
    <<32, 8212, 32>>
----------------------------------------------------------------------------
(* Python str primitives                                                   *)

Min(a, b) == IF a <= b THEN a ELSE b
Max(a, b) == IF a >= b THEN a ELSE b

\* s[:stop]
SliceTo(s, stop) ==
    LET e == IF stop < 0 THEN Max(0, Len(s) + stop) ELSE Min(stop, Len(s))
    IN  SubSeq(s, 1, e)

\* s[start:]
SliceFrom(s, start) ==
    LET b == IF start < 0 THEN Max(0, Len(s) + start) ELSE Min(start, Len(s))
    IN  SubSeq(s, b + 1, Len(s))

\* t in s
Contains(s, t) ==
    /\ Len(t) <= Len(s)
    /\ \E i \in 0..(Len(s) - Len(t)) : SubSeq(s, i + 1, i + Len(t)) = t

\* s.endswith(t)
EndsWith(s, t) ==
    /\ Len(t) <= Len(s)
    /\ SubSeq(s, Len(s) - Len(t) + 1, Len(s)) = t

RECURSIVE Join(_)
\* ''.join(parts)
Join(parts) ==
    IF parts = <<>> THEN <<>> ELSE Head(parts) \o Join(Tail(parts))

RECURSIVE SumLen(_)
SumLen(parts) ==
    IF parts = <<>> THEN 0 ELSE Len(Head(parts)) + SumLen(Tail(parts))

----------------------------------------------------------------------------
(* app/services/diff_utils.py                                              *)

\* the early return for a patch that fits is missing
prune_patch_always_cut(patch, max_chars) ==
    IF patch = <<>> THEN <<>>
    ELSE SliceTo(patch, 800) \o SEPARATOR \o SliceFrom(patch, -(max_chars - 800 - 7))

\* prune_patch, lines 1-9
prune_patch(patch, max_chars) ==
    IF patch = <<>> THEN <<>>
    ELSE IF Len(patch) <= max_chars THEN patch
    ELSE LET head == SliceTo(patch, 800)
             tail == SliceFrom(patch, -(max_chars - 800 - 7))
         IN  head \o SEPARATOR \o tail

----------------------------------------------------------------------------
(* Inputs of the environment, drawn from small sets                        *)

MaxFiles == 3       \* longest list of changed files the host API returns
Delta == 2          \* lengths and budgets are taken within Delta of a threshold
SmallMax == 2       \* small lengths and budgets 0..SmallMax are all taken

\* text of n characters, lower-case letters in rotation
MkText(n) == [i \in 1..n |-> 97 + (i % 26)]
\* text of n dots: the characters the separator is made of
MkDots(n) == [i \in 1..n |-> 46]

\* "a.py"
SHORT_NAME == <<97, 46, 112, 121>>

\* elements of the /files response: "patch" is absent for binary files
NoPatchFile    == [filename |-> SHORT_NAME, has_patch |-> FALSE, patch |-> <<>>]
EmptyPatchFile == [filename |-> SHORT_NAME, has_patch |-> TRUE, patch |-> <<>>]
SmallFile      == [filename |-> SHORT_NAME, has_patch |-> TRUE, patch |-> MkText(5)]
LongFile       == [filename |-> MkText(3000), has_patch |-> TRUE,
                   patch |-> MkText(PER_FILE_BUDGET + 500)]
FileKinds == {NoPatchFile, EmptyPatchFile, SmallFile, LongFile}

ChangedLists == UNION {[1..n -> FileKinds] : n \in 0..MaxFiles}

\* answers of the host API: created, and the first status that counts as failed
HttpStatuses == {201, 400}

EMPTY_DOC == [has_results |-> FALSE, results |-> <<>>]

\* one Semgrep result: check_id "rule.eval", path "app/x.py", start.line 12,
\* extra.message "eval is unsafe"
SemgrepFinding ==
    [check_id |-> <<114, 117, 108, 101, 46, 101, 118, 97, 108>>,
     path |-> <<97, 112, 112, 47, 120, 46, 112, 121>>,
     line |-> 12,
     message |-> <<101, 118, 97, 108, 32, 105, 115, 32, 117, 110, 115, 97, 102, 101>>]

\* one Bandit result: test_id "B101", filename "app/x.py", line_number 7,
\* issue_text "assert used"
BanditFinding ==
    [test_id |-> <<66, 49, 48, 49>>,
     filename |-> <<97, 112, 112, 47, 120, 46, 112, 121>>,
     line_number |-> 7,
     issue_text |-> <<97, 115, 115, 101, 114, 116, 32, 117, 115, 101, 100>>]

\* what a subprocess wrote to stdout: nothing, text that is not JSON, or a document
NoOutput == [kind |-> "empty", doc |-> EMPTY_DOC]
Garbage == [kind |-> "garbage", doc |-> EMPTY_DOC]
SemgrepReport == [kind |-> "json", doc |-> [has_results |-> TRUE, results |-> <<SemgrepFinding>>]]
BanditReport == [kind |-> "json", doc |-> [has_results |-> TRUE, results |-> <<BanditFinding>>]]

\* completed subprocesses: exit code 0 without findings, 1 with findings, either
\* of them with unparseable output, and 2 for a crash
SemgrepRuns ==
    {[rc |-> 0, out |-> NoOutput], [rc |-> 1, out |-> SemgrepReport],
     [rc |-> 0, out |-> Garbage], [rc |-> 1, out |-> Garbage],
     [rc |-> 2, out |-> NoOutput]}
BanditRuns ==
    {[rc |-> 0, out |-> NoOutput], [rc |-> 1, out |-> BanditReport],
     [rc |-> 0, out |-> Garbage], [rc |-> 1, out |-> Garbage],
     [rc |-> 2, out |-> NoOutput]}

\* review_with_llm: returns "LGTM!" or raises Exception("connection refused")
LLM_TEXT == <<76, 71, 84, 77, 33>>
LLM_ERROR == <<99, 111, 110, 110, 101, 99, 116, 105, 111, 110, 32, 114, 101, 102,
               117, 115, 101, 100>>
LlmOutcomes == {[raised |-> FALSE, text |-> LLM_TEXT], [raised |-> TRUE, text |-> LLM_ERROR]}

\* content of app/prompts/reviewer_prompt.txt when it exists: "Custom reviewer template."
PROMPT_FILE_TEXT ==
    <<67, 117, 115, 116, 111, 109, 32, 114, 101, 118, 105, 101, 119, 101, 114, 32,
      116, 101, 109, 112, 108, 97, 116, 101, 46>>

----------------------------------------------------------------------------
(* app/services/analyzers.py                                               *)

\* json.loads(res.stdout or "{}")
json_loads(out) ==
    IF out.kind = "garbage" THEN [raised |-> TRUE, value |-> EMPTY_DOC]
    ELSE IF out.kind = "empty" THEN [raised |-> FALSE, value |-> EMPTY_DOC]
    ELSE [raised |-> FALSE, value |-> out.doc]

\* the exit code is not looked at
run_semgrep_ignores_rc(rc, out) == json_loads(out)

run_semgrep(rc, out) ==
    IF rc \notin {0, 1} THEN [raised |-> TRUE, value |-> EMPTY_DOC]
    ELSE json_loads(out)

\* the parse error is not caught
run_bandit_propagates(rc, out) ==
    IF rc \notin {0, 1} THEN [raised |-> TRUE, value |-> EMPTY_DOC]
    ELSE json_loads(out)

run_bandit(rc, out) ==
    IF rc \notin {0, 1} THEN [raised |-> TRUE, value |-> EMPTY_DOC]
    ELSE IF json_loads(out).raised
         THEN [raised |-> FALSE, value |-> [has_results |-> TRUE, results |-> <<>>]]
         ELSE json_loads(out)

----------------------------------------------------------------------------
(* app/scripts/ci_review.py: helpers                                       *)

RECURSIVE Digits(_)
\* str(n) for n >= 0
Digits(n) == IF n < 10 THEN <<48 + n>> ELSE Digits(n \div 10) \o <<48 + (n % 10)>>

RECURSIVE JoinLines(_)
\* "\n".join(out)
JoinLines(out) ==
    IF out = <<>> THEN <<>>
    ELSE IF Len(out) = 1 THEN Head(out)
    ELSE Head(out) \o <<10>> \o JoinLines(Tail(out))

\* res.get("results", [])
GetResults(res) == IF res.has_results THEN res.results ELSE <<>>

semgrep_line(r) ==
    LINE_DASH \o r.check_id \o LINE_AT \o r.path \o LINE_COLON \o Digits(r.line)
        \o LINE_EMDASH \o r.message

bandit_line(i) ==
    LINE_DASH \o i.test_id \o LINE_AT \o i.filename \o LINE_COLON \o Digits(i.line_number)
        \o LINE_EMDASH \o i.issue_text

\* the [:25] is missing
summarize_semgrep_uncapped(res) ==
    LET items == GetResults(res)
    IN  IF items = <<>> THEN NO_SEMGREP
        ELSE JoinLines([k \in 1..Len(items) |-> semgrep_line(items[k])])

summarize_semgrep(res) ==
    LET items == SliceTo(GetResults(res), 25)
    IN  IF items = <<>> THEN NO_SEMGREP
        ELSE JoinLines([k \in 1..Len(items) |-> semgrep_line(items[k])])

summarize_bandit(res) ==
    LET items == SliceTo(GetResults(res), 25)
    IN  IF items = <<>> THEN NO_BANDIT
        ELSE JoinLines([k \in 1..Len(items) |-> bandit_line(items[k])])

try_llm(outcome) ==
    IF outcome.raised
    THEN [ok |-> FALSE, answer |-> LLM_UNAVAILABLE \o outcome.text]
    ELSE [ok |-> TRUE, answer |-> outcome.text]

\* entry = f"### {f['filename']}\n```diff\n{pp}\n```\n"
RenderEntry(f, pp) == ENTRY_OPEN \o f.filename \o ENTRY_FENCE \o pp \o ENTRY_CLOSE

\* the f-string of lines 138-149
BuildPrompt(prompt_base, ds, stxt, btxt) ==
    prompt_base \o PROMPT_DIFFS \o Join(ds) \o PROMPT_SEMGREP \o stxt
        \o PROMPT_BANDIT \o btxt \o <<10>>

\* the static-analysis-only body leaves the Bandit section out
BuildBodyWithoutBandit(is_ok, answer, stxt, btxt) ==
    IF is_ok
    THEN BODY_LLM_HEAD \o answer \o BODY_LLM_FOOT
    ELSE BODY_STATIC_HEAD \o answer \o BODY_STATIC_SEMGREP \o stxt \o BODY_STATIC_FOOT

\* the two f-strings of lines 154-175
BuildBody(is_ok, answer, stxt, btxt) ==
    IF is_ok
    THEN BODY_LLM_HEAD \o answer \o BODY_LLM_FOOT
    ELSE BODY_STATIC_HEAD \o answer \o BODY_STATIC_SEMGREP \o stxt
             \o BODY_STATIC_BANDIT \o btxt \o BODY_STATIC_FOOT

Call(op, status, text) == [op |-> op, status |-> status, body |-> text]

----------------------------------------------------------------------------
(* app/scripts/ci_review.py: main(), one action per step between two       *)
(* external calls                                                          *)

MainStart ==
    /\ pc = "context"
    /\ exit_code = -1
    /\ semgrep_res = EMPTY_DOC
    /\ bandit_res = EMPTY_DOC
    /\ changed = <<>>
    /\ idx = 1
    /\ diffs = <<>>
    /\ total = 0
    /\ semgrep_txt = <<>>
    /\ bandit_txt = <<>>
    /\ prompt = <<>>
    /\ ok = FALSE
    /\ llm_answer = <<>>
    /\ body = <<>>
    /\ calls = <<>>

PruneIdle ==
    /\ pr_patch = <<>>
    /\ pr_max = 0
    /\ pr_out = <<>>
    /\ pr_out2 = <<>>
    /\ pr_pc = "idle"

SumIdle ==
    /\ sm_tool = "semgrep"
    /\ sm_res = EMPTY_DOC
    /\ sm_out = <<>>
    /\ sm_pc = "idle"

Init == MainStart /\ PruneIdle /\ SumIdle

\* the handler swallows the exception and the process ends normally
AbortExitZero ==
    /\ pc' = "done"
    /\ exit_code' = 0

\* except Exception: ... sys.exit(1)
Abort ==
    /\ pc' = "done"
    /\ exit_code' = 1

\* lines 93-95: get_pr_info() and os.environ["GITHUB_TOKEN"]
ResolveContext ==
    /\ pc = "context"
    /\ \E event_ok \in BOOLEAN, token_ok \in BOOLEAN :
          IF event_ok /\ token_ok
          THEN pc' = "semgrep" /\ exit_code' = exit_code
          ELSE Abort
    /\ UNCHANGED <<semgrep_res, bandit_res, changed, idx, diffs, total, semgrep_txt,
                   bandit_txt, prompt, ok, llm_answer, body, calls, pruneVars, sumVars>>

\* lines 98-100
RunSemgrep ==
    /\ pc = "semgrep"
    /\ \E run \in SemgrepRuns :
          LET r == run_semgrep(run.rc, run.out)
          IN  /\ calls' = Append(calls, Call("semgrep", run.rc, <<>>))
              /\ IF r.raised
                 THEN Abort /\ semgrep_res' = semgrep_res
                 ELSE pc' = "bandit" /\ exit_code' = exit_code /\ semgrep_res' = r.value
    /\ UNCHANGED <<bandit_res, changed, idx, diffs, total, semgrep_txt, bandit_txt,
                   prompt, ok, llm_answer, body, pruneVars, sumVars>>

\* lines 102-104
RunBandit ==
    /\ pc = "bandit"
    /\ \E run \in BanditRuns :
          LET r == run_bandit(run.rc, run.out)
          IN  /\ calls' = Append(calls, Call("bandit", run.rc, <<>>))
              /\ IF r.raised
                 THEN Abort /\ bandit_res' = bandit_res
                 ELSE pc' = "fetch" /\ exit_code' = exit_code /\ bandit_res' = r.value
    /\ UNCHANGED <<semgrep_res, changed, idx, diffs, total, semgrep_txt, bandit_txt,
                   prompt, ok, llm_answer, body, pruneVars, sumVars>>

\* get_changed_files: r.raise_for_status() raises when status_code >= 400
get_changed_files(status, files) ==
    IF status >= 400 THEN [raised |-> TRUE, value |-> <<>>]
    ELSE [raised |-> FALSE, value |-> files]

\* lines 107-113
FetchChangedFiles ==
    /\ pc = "fetch"
    /\ \E status \in HttpStatuses, files \in ChangedLists :
          LET r == get_changed_files(status, files)
          IN  /\ calls' = Append(calls, Call("files", status, <<>>))
              /\ IF r.raised
                 THEN Abort /\ changed' = changed
                 ELSE pc' = "loop" /\ exit_code' = exit_code /\ changed' = r.value
    /\ idx' = 1
    /\ diffs' = <<>>
    /\ total' = 0
    /\ UNCHANGED <<semgrep_res, bandit_res, semgrep_txt, bandit_txt, prompt, ok,
                   llm_answer, body, pruneVars, sumVars>>

\* the patch of the file the loop is at: f.get("patch")
HasPatch(f) == f.has_patch /\ f.patch # <<>>

\* the entry line 119 renders for file f
EntryOf(f) == RenderEntry(f, prune_patch(f.patch, PER_FILE_BUDGET))

\* the budget test looks at the running total alone
OverflowsBeforeAdding(running, entry) == running > MAX_DIFF_BUDGET

\* line 120: the entry does not fit any more
Overflows(running, entry) == running + Len(entry) > MAX_DIFF_BUDGET

\* the loop does not advance past a file without patch
LoopSkipStays ==
    /\ pc = "loop"
    /\ idx <= Len(changed)
    /\ ~HasPatch(changed[idx])
    /\ UNCHANGED vars

\* lines 114-117: a file without patch is skipped
LoopSkip ==
    /\ pc = "loop"
    /\ idx <= Len(changed)
    /\ ~HasPatch(changed[idx])
    /\ idx' = idx + 1
    /\ UNCHANGED <<pc, exit_code, semgrep_res, bandit_res, changed, diffs, total,
                   semgrep_txt, bandit_txt, prompt, ok, llm_answer, body, calls,
                   pruneVars, sumVars>>

\* lines 118-123: the entry fits and is appended
LoopAppend ==
    /\ pc = "loop"
    /\ idx <= Len(changed)
    /\ HasPatch(changed[idx])
    /\ LET entry == EntryOf(changed[idx])
       IN  /\ ~Overflows(total, entry)
           /\ diffs' = Append(diffs, entry)
           /\ total' = total + Len(entry)
    /\ idx' = idx + 1
    /\ UNCHANGED <<pc, exit_code, semgrep_res, bandit_res, changed, semgrep_txt,
                   bandit_txt, prompt, ok, llm_answer, body, calls, pruneVars, sumVars>>

\* continue instead of break: the entry is dropped and the loop goes on
LoopBreakSkips ==
    /\ pc = "loop"
    /\ idx <= Len(changed)
    /\ HasPatch(changed[idx])
    /\ Overflows(total, EntryOf(changed[idx]))
    /\ idx' = idx + 1
    /\ UNCHANGED <<pc, exit_code, semgrep_res, bandit_res, changed, diffs, total,
                   semgrep_txt, bandit_txt, prompt, ok, llm_answer, body, calls,
                   pruneVars, sumVars>>

\* lines 120-121: break
LoopBreak ==
    /\ pc = "loop"
    /\ idx <= Len(changed)
    /\ HasPatch(changed[idx])
    /\ Overflows(total, EntryOf(changed[idx]))
    /\ pc' = "compose"
    /\ UNCHANGED <<exit_code, semgrep_res, bandit_res, changed, idx, diffs, total,
                   semgrep_txt, bandit_txt, prompt, ok, llm_answer, body, calls,
                   pruneVars, sumVars>>

\* line 114: the list is exhausted
LoopEnd ==
    /\ pc = "loop"
    /\ idx > Len(changed)
    /\ pc' = "compose"
    /\ UNCHANGED <<exit_code, semgrep_res, bandit_res, changed, idx, diffs, total,
                   semgrep_txt, bandit_txt, prompt, ok, llm_answer, body, calls,
                   pruneVars, sumVars>>

\* lines 126-149
ComposePrompt ==
    /\ pc = "compose"
    /\ \E file_exists \in BOOLEAN :
          LET prompt_base == IF file_exists THEN PROMPT_FILE_TEXT ELSE DEFAULT_PROMPT_BASE
          IN  prompt' = BuildPrompt(prompt_base, diffs, summarize_semgrep(semgrep_res),
                                    summarize_bandit(bandit_res))
    /\ semgrep_txt' = summarize_semgrep(semgrep_res)
    /\ bandit_txt' = summarize_bandit(bandit_res)
    /\ pc' = "llm"
    /\ UNCHANGED <<exit_code, semgrep_res, bandit_res, changed, idx, diffs, total, ok,
                   llm_answer, body, calls, pruneVars, sumVars>>

\* the model is asked again after it raised
ReviewRetries ==
    /\ pc = "llm"
    /\ \E outcome \in LlmOutcomes :
          LET r == try_llm(outcome)
          IN  /\ ok' = r.ok
              /\ llm_answer' = r.answer
              /\ body' = BuildBody(r.ok, r.answer, semgrep_txt, bandit_txt)
              /\ calls' = Append(calls, Call("llm", IF outcome.raised THEN 1 ELSE 0, <<>>))
              /\ pc' = IF outcome.raised THEN "llm" ELSE "post_review"
    /\ UNCHANGED <<exit_code, semgrep_res, bandit_res, changed, idx, diffs, total,
                   semgrep_txt, bandit_txt, prompt, pruneVars, sumVars>>

\* lines 152-175
Review ==
    /\ pc = "llm"
    /\ \E outcome \in LlmOutcomes :
          LET r == try_llm(outcome)
          IN  /\ ok' = r.ok
              /\ llm_answer' = r.answer
              /\ body' = BuildBody(r.ok, r.answer, semgrep_txt, bandit_txt)
              /\ calls' = Append(calls, Call("llm", IF outcome.raised THEN 1 ELSE 0, <<>>))
    /\ pc' = "post_review"
    /\ UNCHANGED <<exit_code, semgrep_res, bandit_res, changed, idx, diffs, total,
                   semgrep_txt, bandit_txt, prompt, pruneVars, sumVars>>

\* the comparison is strict
FailedAbove400(status) == status > 400

\* line 180 and line 184
Failed(status) == status >= 400

\* the fallback is posted whatever the primary endpoint answered
PostReviewAlwaysFallsBack ==
    /\ pc = "post_review"
    /\ \E status \in HttpStatuses :
          calls' = Append(calls, Call("reviews", status, body))
    /\ pc' = "post_issue"
    /\ UNCHANGED <<exit_code, semgrep_res, bandit_res, changed, idx, diffs, total,
                   semgrep_txt, bandit_txt, prompt, ok, llm_answer, body, pruneVars,
                   sumVars>>

\* lines 178-181, 189-190
PostReview ==
    /\ pc = "post_review"
    /\ \E status \in HttpStatuses :
          /\ calls' = Append(calls, Call("reviews", status, body))
          /\ IF Failed(status)
             THEN pc' = "post_issue" /\ exit_code' = exit_code
             ELSE pc' = "done" /\ exit_code' = 0
    /\ UNCHANGED <<semgrep_res, bandit_res, changed, idx, diffs, total, semgrep_txt,
                   bandit_txt, prompt, ok, llm_answer, body, pruneVars, sumVars>>

\* a failed fallback goes back to the primary endpoint
PostIssueCommentRetriesPrimary ==
    /\ pc = "post_issue"
    /\ \E status \in HttpStatuses :
          /\ calls' = Append(calls, Call("comments", status, body))
          /\ IF Failed(status)
             THEN pc' = "post_review" /\ exit_code' = exit_code
             ELSE pc' = "done" /\ exit_code' = 0
    /\ UNCHANGED <<semgrep_res, bandit_res, changed, idx, diffs, total, semgrep_txt,
                   bandit_txt, prompt, ok, llm_answer, body, pruneVars, sumVars>>

\* lines 182-188: ir.raise_for_status() raises, main's handler exits 1
PostIssueComment ==
    /\ pc = "post_issue"
    /\ \E status \in HttpStatuses :
          /\ calls' = Append(calls, Call("comments", status, body))
          /\ IF Failed(status)
             THEN Abort
             ELSE pc' = "done" /\ exit_code' = 0
    /\ UNCHANGED <<semgrep_res, bandit_res, changed, idx, diffs, total, semgrep_txt,
                   bandit_txt, prompt, ok, llm_answer, body, pruneVars, sumVars>>

Next ==
    \/ ResolveContext
    \/ RunSemgrep
    \/ RunBandit
    \/ FetchChangedFiles
    \/ LoopSkip
    \/ LoopAppend
    \/ LoopBreak
    \/ LoopEnd
    \/ ComposePrompt
    \/ Review
    \/ PostReview
    \/ PostIssueComment

Spec == Init /\ [][Next]_vars

\* main() is sequential: when a step can run it runs, provided every blocking
\* call returns or raises
LiveSpec == Spec /\ WF_vars(Next)

----------------------------------------------------------------------------
(* prune_patch applied to a patch and a budget, then to its own result     *)

Near(c) == (c - Delta)..(c + Delta)

\* budgets: small ones, those around the head length (800), around head plus
\* separator allowance (807) and around PER_FILE_BUDGET
Budgets == (0..SmallMax) \cup Near(800) \cup Near(807) \cup Near(PER_FILE_BUDGET)

\* lengths: small ones, and those around every budget and around twice the head
PatchLens ==
    {n \in (0..SmallMax) \cup UNION {Near(b) : b \in Budgets} \cup Near(1600)
           \cup Near(PER_FILE_BUDGET + 807) : n >= 0}

PatchInputs == {MkText(n) : n \in PatchLens} \cup {MkDots(n) : n \in PatchLens}

PruneInit ==
    /\ MainStart
    /\ pr_patch \in PatchInputs
    /\ pr_max \in Budgets
    /\ pr_out = <<>>
    /\ pr_out2 = <<>>
    /\ pr_pc = "start"
    /\ SumIdle

PruneOnce ==
    /\ pr_pc = "start"
    /\ pr_out' = prune_patch(pr_patch, pr_max)
    /\ pr_pc' = "pruned"
    /\ UNCHANGED <<pr_patch, pr_max, pr_out2, mainVars, sumVars>>

PruneAgain ==
    /\ pr_pc = "pruned"
    /\ pr_out2' = prune_patch(pr_out, pr_max)
    /\ pr_pc' = "repruned"
    /\ UNCHANGED <<pr_patch, pr_max, pr_out, mainVars, sumVars>>

PruneNext == PruneOnce \/ PruneAgain

PruneSpec == PruneInit /\ [][PruneNext]_vars

----------------------------------------------------------------------------
(* summarize_semgrep and summarize_bandit applied to a result document     *)

MaxFindings == 26   \* longest findings list a tool reports

\* n findings that differ in their line number, so that their order shows
NumberedSemgrep(n) == [k \in 1..n |-> [SemgrepFinding EXCEPT !.line = k]]
NumberedBandit(n) == [k \in 1..n |-> [BanditFinding EXCEPT !.line_number = k]]

\* documents without "results", and with 0..MaxFindings results, numbered or
\* all alike
SemgrepDocs ==
    {EMPTY_DOC}
        \cup {[has_results |-> TRUE, results |-> NumberedSemgrep(n)] : n \in 0..MaxFindings}
        \cup {[has_results |-> TRUE, results |-> [k \in 1..n |-> SemgrepFinding]] :
                 n \in 1..MaxFindings}
BanditDocs ==
    {EMPTY_DOC}
        \cup {[has_results |-> TRUE, results |-> NumberedBandit(n)] : n \in 0..MaxFindings}
        \cup {[has_results |-> TRUE, results |-> [k \in 1..n |-> BanditFinding]] :
                 n \in 1..MaxFindings}

SumInit ==
    /\ MainStart
    /\ PruneIdle
    /\ \/ sm_tool = "semgrep" /\ sm_res \in SemgrepDocs
       \/ sm_tool = "bandit" /\ sm_res \in BanditDocs
    /\ sm_out = <<>>
    /\ sm_pc = "start"

Summarize ==
    /\ sm_pc = "start"
    /\ sm_out' = IF sm_tool = "semgrep" THEN summarize_semgrep(sm_res)
                 ELSE summarize_bandit(sm_res)
    /\ sm_pc' = "done"
    /\ UNCHANGED <<sm_tool, sm_res, mainVars, pruneVars>>

SumNext == Summarize

SumSpec == SumInit /\ [][SumNext]_vars

RECURSIVE SplitLines(_)
\* s.split("\n")
SplitLines(s) ==
    IF \E i \in 1..Len(s) : s[i] = 10
    THEN LET i == CHOOSE j \in 1..Len(s) : s[j] = 10 /\ \A h \in 1..(j - 1) : s[h] # 10
         IN  <<SubSeq(s, 1, i - 1)>> \o SplitLines(SubSeq(s, i + 1, Len(s)))
    ELSE <<s>>

\* C14: on a result without findings each summarizer returns its sentence; on
\* count >= 1 findings it returns min(25, count) lines, the k-th being the
\* rendering of the k-th finding.
C14_SummarizeCapsAt25 ==
    sm_pc = "done" =>
        LET items == GetResults(sm_res)
            m == IF Len(items) < 25 THEN Len(items) ELSE 25
            lines == SplitLines(sm_out)
        IN  IF Len(items) = 0
            THEN sm_out = (IF sm_tool = "semgrep" THEN NO_SEMGREP ELSE NO_BANDIT)
            ELSE /\ Len(lines) = m
                 /\ \A k \in 1..m :
                       lines[k] = (IF sm_tool = "semgrep" THEN semgrep_line(items[k])
                                   ELSE bandit_line(items[k]))

\* more than 25 findings were summarized into 25 lines
C14_Witness ==
    /\ sm_pc = "done"
    /\ Len(GetResults(sm_res)) > 25
    /\ Len(SplitLines(sm_out)) = 25

----------------------------------------------------------------------------
(* Properties of main(), checked under Spec                                *)

\* positions in the call log of the calls of one kind
CallsOf(op) == {i \in 1..Len(calls) : calls[i].op = op}
Posts == CallsOf("reviews") \cup CallsOf("comments")
Finished == pc = "done"

\* C1: when the primary post answers >= 400, a finished run has called the
\* fallback endpoint exactly once, after the primary post and with the same
\* body, and exits 0 if the fallback answered < 400; the fallback is never
\* called before the primary post has failed.
C1_FallbackOnceSameBody ==
    /\ \A j \in CallsOf("comments") :
          \E i \in CallsOf("reviews") : i < j /\ calls[i].status >= 400
    /\ \A i \in CallsOf("reviews") :
          (Finished /\ calls[i].status >= 400) =>
              /\ Cardinality(CallsOf("comments")) = 1
              /\ \A j \in CallsOf("comments") :
                    /\ i < j
                    /\ calls[j].body = calls[i].body
                    /\ calls[j].status < 400 => exit_code = 0

\* the primary post failed, the fallback succeeded and the run has ended
C1_Witness ==
    /\ Finished
    /\ exit_code = 0
    /\ \E i \in CallsOf("reviews"), j \in CallsOf("comments") :
          /\ calls[i].status >= 400
          /\ calls[j].status < 400
          /\ calls[j].body # <<>>

\* C2: when both write endpoints answer >= 400 the run ends with exit code 1,
\* and it has then called each endpoint exactly once, the primary one first; no
\* run fails in the Post step before the fallback was attempted.
C2_BothPostsFailIsFatal ==
    /\ (Finished /\ (\E i \in CallsOf("reviews") : calls[i].status >= 400)
                 /\ (\E j \in CallsOf("comments") : calls[j].status >= 400)) =>
          /\ exit_code = 1
          /\ Cardinality(CallsOf("reviews")) = 1
          /\ Cardinality(CallsOf("comments")) = 1
          /\ \A i \in CallsOf("reviews"), j \in CallsOf("comments") : i < j
    /\ (Finished /\ exit_code = 1 /\ CallsOf("reviews") # {}) =>
          /\ Cardinality(CallsOf("comments")) = 1
          /\ \A k \in Posts : calls[k].status >= 400

\* both posts failed and the run has ended with exit code 1
C2_Witness ==
    /\ Finished
    /\ exit_code = 1
    /\ \E i \in CallsOf("reviews"), j \in CallsOf("comments") :
          i < j /\ calls[i].status >= 400 /\ calls[j].status >= 400

\* C3: a changed-files request answered >= 400 does not end the run: a finished
\* run has bundled no diff, called the model and posted, and exit code 0 is
\* still possible (no such run is forced to exit 1 by the fetch alone).
C3_FailedFetchNonFatal ==
    \A i \in CallsOf("files") :
        (Finished /\ calls[i].status >= 400) =>
            /\ diffs = <<>>
            /\ CallsOf("llm") # {}
            /\ CallsOf("reviews") # {}

\* C4: when the model call raised, the run is not ended by it: it goes on to
\* the Post step, every body it posts holds the "LLM unavailable" text, the
\* Semgrep summary and the Bandit summary and not the model's answer, and the
\* run exits 0 when a post answered < 400.
C4_LlmFailureDegrades ==
    \A l \in CallsOf("llm") :
        calls[l].status = 1 =>
            /\ pc \in {"post_review", "post_issue", "done"}
            /\ Finished => Posts # {}
            /\ \A k \in Posts :
                  /\ l < k
                  /\ Contains(calls[k].body, LLM_UNAVAILABLE)
                  /\ Contains(calls[k].body, summarize_semgrep(semgrep_res))
                  /\ Contains(calls[k].body, summarize_bandit(bandit_res))
                  /\ ~Contains(calls[k].body, LLM_TEXT)
                  /\ (Finished /\ calls[k].status < 400) => exit_code = 0

\* the model call raised, both analyzers reported a finding, and the comment
\* was posted
C4_Witness ==
    /\ Finished
    /\ exit_code = 0
    /\ \E l \in CallsOf("llm") : calls[l].status = 1
    /\ GetResults(semgrep_res) # <<>>
    /\ GetResults(bandit_res) # <<>>
    /\ \E k \in Posts : calls[k].status < 400

\* C5: when the model call returned, every posted body holds each bundled diff
\* entry, the Semgrep summary, the Bandit summary and the model's answer.
C5_BodyHoldsDiffsAndSummaries ==
    \A l \in CallsOf("llm") :
        calls[l].status = 0 =>
            \A k \in Posts :
                /\ \A d \in 1..Len(diffs) : Contains(calls[k].body, diffs[d])
                /\ Contains(calls[k].body, summarize_semgrep(semgrep_res))
                /\ Contains(calls[k].body, summarize_bandit(bandit_res))
                /\ Contains(calls[k].body, LLM_TEXT)

\* C6: in every state of the bundling loop and after it, the running total is
\* the summed length of the appended entries and is at most MAX_DIFF_BUDGET.
C6_TotalWithinBudget ==
    /\ total = SumLen(diffs)
    /\ total <= MAX_DIFF_BUDGET

\* the loop has met an entry that does not fit, with entries already bundled
C6_Witness ==
    /\ pc = "compose"
    /\ idx <= Len(changed)
    /\ total > 0
    /\ total + Len(EntryOf(changed[idx])) > MAX_DIFF_BUDGET

\* the files of `files` that have a non-empty patch, in order
WithPatch(files) == SelectSeq(files, HasPatch)

\* the entries of `files`, in order
Entries(files) == [i \in 1..Len(files) |-> EntryOf(files[i])]

\* the length of the longest leading run of `entries` whose summed length is at
\* most MAX_DIFF_BUDGET
FittingPrefix(entries) ==
    CHOOSE k \in 0..Len(entries) :
        /\ SumLen(SubSeq(entries, 1, k)) <= MAX_DIFF_BUDGET
        /\ k < Len(entries) => SumLen(SubSeq(entries, 1, k + 1)) > MAX_DIFF_BUDGET

\* C7: once the loop has ended, the bundle is the entries of the longest leading
\* run of the files with a non-empty patch that fits MAX_DIFF_BUDGET, in order.
C7_FirstFitPrefix ==
    pc # "loop" =>
        LET entries == Entries(WithPatch(changed))
        IN  diffs = SubSeq(entries, 1, FittingPrefix(entries))

\* the loop stopped at an entry that does not fit, and a later file whose entry
\* would have fit is left out
C7_Witness ==
    /\ pc = "compose"
    /\ idx <= Len(changed)
    /\ Len(diffs) >= 1
    /\ \E j \in (idx + 1)..Len(changed) :
          /\ HasPatch(changed[j])
          /\ total + Len(EntryOf(changed[j])) <= MAX_DIFF_BUDGET
    /\ Len(diffs) < Len(WithPatch(changed))

\* positions in the call log of the analyzer runs
AnalyzerCalls == CallsOf("semgrep") \cup CallsOf("bandit")

\* C11: a run that ended before Semgrep was started (the context could not be
\* resolved) has exit code 1 and issued no call at all; an analyzer that exits
\* with a code other than 0 and 1 ends the run with exit code 1 and is the last
\* call of the run, so no analyzer, fetch, model call or post follows it; exit
\* codes 0 and 1 with readable output make neither runner raise.
C11_FatalStepsAbort ==
    /\ (Finished /\ CallsOf("semgrep") = {}) => (exit_code = 1 /\ calls = <<>>)
    /\ \A i \in AnalyzerCalls :
          calls[i].status \notin {0, 1} =>
              /\ Finished
              /\ exit_code = 1
              /\ i = Len(calls)
    /\ \A i \in CallsOf("bandit") : CallsOf("semgrep") # {} /\ i = 2
    /\ \A rc \in {0, 1} :
          /\ \A run \in SemgrepRuns :
                run.out.kind # "garbage" => ~run_semgrep(rc, run.out).raised
          /\ \A run \in BanditRuns : ~run_bandit(rc, run.out).raised

\* Semgrep exited with code 2: the run has ended with exit code 1 and Bandit was
\* never started
C11_Witness ==
    /\ Finished
    /\ exit_code = 1
    /\ Len(calls) = 1
    /\ calls[1].op = "semgrep"
    /\ calls[1].status = 2

\* C12: Bandit output that does not parse gives an empty findings list at exit
\* codes 0 and 1, and a finished Bandit run with such an exit code is never the
\* end of the run; Semgrep output that does not parse raises at exit codes 0 and
\* 1, and a run whose last call is Semgrep has exit code 1; Bandit with another
\* exit code raises whatever it wrote.
C12_ParseFailureAsymmetry ==
    /\ \A rc \in {0, 1} :
          /\ run_semgrep(rc, Garbage).raised
          /\ ~run_bandit(rc, Garbage).raised
          /\ GetResults(run_bandit(rc, Garbage).value) = <<>>
    /\ \A run \in BanditRuns : run.rc \notin {0, 1} => run_bandit(run.rc, run.out).raised
    /\ \A i \in CallsOf("bandit") :
          /\ (calls[i].status \in {0, 1} /\ i = Len(calls)) =>
                (pc = "fetch" /\ exit_code = -1)
          /\ (calls[i].status \notin {0, 1}) => (Finished /\ exit_code = 1)
    /\ \A i \in CallsOf("semgrep") :
          (Finished /\ i = Len(calls)) => exit_code = 1

\* Bandit wrote output that does not parse: its result is the empty findings
\* list and the run has gone on to post its comment
C12_Witness ==
    /\ Finished
    /\ exit_code = 0
    /\ bandit_res = [has_results |-> TRUE, results |-> <<>>]
    /\ summarize_bandit(bandit_res) = NO_BANDIT
    /\ Posts # {}

\* C13: a finished run has exit code 0 exactly when one write endpoint answered
\* < 400, and exit code 1 otherwise.
C13_ExitZeroIffPosted ==
    Finished =>
        /\ exit_code \in {0, 1}
        /\ exit_code = 0 <=> (\E k \in Posts : calls[k].status < 400)

\* a degraded run that still posted: no changed files, model unavailable
C13_Witness ==
    /\ Finished
    /\ exit_code = 0
    /\ changed = <<>>
    /\ ~ok
    /\ \E l \in CallsOf("llm") : calls[l].status = 1
    /\ \E k \in CallsOf("comments") : calls[k].status < 400

\* the step of section 4.7 a position of main() belongs to: 1 ResolveContext,
\* 2 RunAnalyzers, 3 FetchDiffs, 4 ComposePrompt, 5 Review, 6 Post, 7 Done
StepOf(at) ==
    CASE at = "context" -> 1
      [] at \in {"semgrep", "bandit"} -> 2
      [] at = "fetch" -> 3
      [] at \in {"loop", "compose"} -> 4
      [] at = "llm" -> 5
      [] at \in {"post_review", "post_issue"} -> 6
      [] at = "done" -> 7

\* the order in which the external calls are issued
CallRank(op) ==
    CASE op = "semgrep" -> 1
      [] op = "bandit" -> 2
      [] op = "files" -> 3
      [] op = "llm" -> 4
      [] op = "reviews" -> 5
      [] op = "comments" -> 6

\* C15: the run never moves to an earlier step, the external calls are issued
\* in the order Semgrep, Bandit, changed files, model, primary post, fallback
\* post, each at most once, and every post comes after both analyzer runs, the
\* changed-files request and the model call.
C15_ForwardOnly ==
    /\ [](/\ \A i, j \in 1..Len(calls) :
                i < j => CallRank(calls[i].op) < CallRank(calls[j].op)
          /\ \A k \in Posts :
                \A op \in {"semgrep", "bandit", "files", "llm"} :
                    \E i \in CallsOf(op) : i < k)
    /\ [][StepOf(pc') >= StepOf(pc)]_vars

\* the run went through every step and both posts
C15_Witness ==
    /\ Finished
    /\ Len(calls) = 6
    /\ Len(diffs) >= 1

\* C16: the model is called at most once in a run; after it raised the run is in
\* the Post step or beyond, with the body built from the fallback text.
C16_SingleModelCall ==
    /\ Cardinality(CallsOf("llm")) <= 1
    /\ \A l \in CallsOf("llm") :
          calls[l].status = 1 =>
              /\ pc \in {"post_review", "post_issue", "done"}
              /\ ~ok
              /\ llm_answer = LLM_UNAVAILABLE \o LLM_ERROR
              /\ body = BuildBody(FALSE, llm_answer, semgrep_txt, bandit_txt)

\* the model raised and the run is about to post
C16_Witness ==
    /\ pc = "post_review"
    /\ ~ok
    /\ \E l \in CallsOf("llm") : calls[l].status = 1 /\ l = Len(calls)

\* C17: when the primary post answered < 400 the fallback endpoint is never
\* called, and at most one post of a run is answered < 400.
C17_AtMostOneComment ==
    /\ \A i \in CallsOf("reviews") :
          calls[i].status < 400 => CallsOf("comments") = {}
    /\ Cardinality({k \in Posts : calls[k].status < 400}) <= 1

\* the primary post succeeded and the run has ended
C17_Witness ==
    /\ Finished
    /\ exit_code = 0
    /\ \E i \in CallsOf("reviews") : calls[i].status < 400 /\ i = Len(calls)

\* C19: every run reaches the end with exit code 0 or 1, and the bundling loop
\* has never made more iterations than there are changed files.
C19_Terminates ==
    /\ <>(Finished /\ exit_code \in {0, 1})
    /\ [](idx - 1 <= Len(changed))

\* a run over a full list of changed files has ended, every file visited once
C19_Witness ==
    /\ Finished
    /\ exit_code \in {0, 1}
    /\ Len(changed) = MaxFiles
    /\ idx = Len(changed) + 1

----------------------------------------------------------------------------
(* Properties of prune_patch, checked under PruneSpec                      *)

Pruned == pr_pc \in {"pruned", "repruned"}

\* C8, at the budgets above head plus separator allowance (800 + 7), where the
\* tail slice is a proper suffix: a patch longer than max_chars is pruned to
\* exactly max_chars characters: its first 800 characters, the separator
\* "\n...\n" and a slice from its end, with
\* 800 + len(separator) + len(tail) = max_chars.
C8_PruneExactLength ==
    (Pruned /\ pr_max > 800 + 7 /\ Len(pr_patch) > pr_max) =>
        /\ Len(pr_out) = pr_max
        /\ \E k \in 0..Len(pr_patch) :
              /\ 800 + Len(SEPARATOR) + k = pr_max
              /\ pr_out = SubSeq(pr_patch, 1, 800) \o SEPARATOR
                              \o SubSeq(pr_patch, Len(pr_patch) - k + 1, Len(pr_patch))

\* C9: a patch no longer than max_chars is returned unchanged, and the empty
\* patch gives the empty string at every budget.
C9_PruneKeepsFittingPatch ==
    Pruned =>
        /\ Len(pr_patch) <= pr_max => pr_out = pr_patch
        /\ pr_patch = <<>> => pr_out = <<>>

\* a patch longer than the head that fits its budget has been pruned
C9_Witness ==
    /\ pr_pc = "pruned"
    /\ Len(pr_patch) > 800
    /\ Len(pr_patch) <= pr_max
    /\ pr_out = pr_patch

\* C10: pruning the result again at the same budget changes nothing.
C10_PruneIdempotent ==
    pr_pc = "repruned" => pr_out2 = pr_out

\* C18: the result of prune_patch is never longer than max_chars, at every
\* budget max_chars >= 0.
C18_PruneWithinBudget ==
    (Pruned /\ pr_max >= 0) => Len(pr_out) <= pr_max

====
